---- MODULE Spec2Model ----
(***************************************************************************)
(* Image segmentation: the two kMeansSegmentation implementations, the     *)
(* mean-shift and watershed variants, the cluster validity metrics and the *)
(* SegmentationTool component that runs them on an uploaded image.         *)
(*                                                                         *)
(* Numbers.  A colour or centroid is a record [v |-> <<r, g, b>>, d |-> n] *)
(* standing for the point v / d, so that the means the code computes       *)
(* (sum / count) are exact.  Two Euclidean distances are compared by       *)
(* comparing their radicands (Math.sqrt is monotone).  Where the code uses *)
(* the value of a distance (seeding weights, scatter, silhouette) it is    *)
(* kept in fixed point, in units of 1 / SqrtScale.  Math.random() returns  *)
(* j / RandDen for some j in 0 .. RandDen - 1.  Labels are 0-based as in   *)
(* the code; sequences are 1-based, so label l names centroids[l + 1].     *)
(***************************************************************************)
EXTENDS Integers, Sequences, FiniteSets, TLC

VARIABLES
    pc,          \* control position of the running function
    algorithm,   \* the function that runs: "kpp" (k-means++ file), "k15" (fixed
                 \* 15 iterations file), "meanshift", "watershed", or a metric
    imageData,   \* the argument: [width, height, pixels]
    k,           \* the argument k
    centroids,   \* sequence of centroids
    labels,      \* sequence of labels, one per pixel
    changed,     \* the k-means++ loop's flag
    iterations,  \* the loop counter (iterations / iter)
    passes,      \* number of assignment passes executed so far
    used,        \* the centroids the last assignment pass measured against
    outcome,     \* "running", "returned" or the name of the error thrown
    parameter,   \* numerator of the bandwidth / sigma argument (over ParamDen)
    clusters,    \* the clusters argument of calculateDaviesBouldinIndex
    value,       \* the number a metric returned
    \* the state of the SegmentationTool component
    uploadedFile,        \* "" for null
    uploadedImageUrl,
    selectedAlgorithm,
    parameters,
    result,              \* Null or the stored comprehensiveResult
    isProcessing,
    img,                 \* the Image a run created, with what its onload closes over
    toast                \* title of the last toast

toolVars == <<uploadedFile, uploadedImageUrl, selectedAlgorithm, parameters, result,
              isProcessing, img, toast>>

vars == <<pc, algorithm, imageData, k, centroids, labels, changed, iterations,
          passes, used, outcome, parameter, clusters, value, toolVars>>

\* what kMeansSegmentation does not touch
otherVars == <<parameter, clusters, value, toolVars>>

\* what the region variants and the metrics do not touch
loopVars == <<k, changed, iterations, passes, used, toolVars>>

-----------------------------------------------------------------------------
(* Bounds of the model *)
MaxPixels == 2
MaxK == 3
RandDen == 2
SqrtScale == 100

(* Constants of the program *)
MaxIterations == 100
FixedIterations == 15
ChannelMax == 255

Dark == <<10, 10, 10>>
Bright == <<240, 240, 240>>
Mid == <<10, 10, 240>>
Palette == {Dark, Bright, Mid}

Image2x2 == [width |-> 2, height |-> 2, pixels |-> <<Dark, Dark, Bright, Bright>>]
ImageRamp == [width |-> 4, height |-> 1, pixels |-> <<Dark, Mid, Mid, Bright>>]

(* The zero-pixel argument: an object whose data array is empty.  (No       *)
(* ImageData has a zero side, so its width and height are not zero.)       *)
EmptyImages == { [width |-> 1, height |-> 1, pixels |-> <<>>] }

RowImages ==
    UNION { { [width |-> w, height |-> 1, pixels |-> p] : p \in [1..w -> Palette] }
            : w \in 1..MaxPixels }

Images == EmptyImages \cup RowImages \cup {Image2x2, ImageRamp}

KSet == (0 - 1)..MaxK

RandSet == 0..(RandDen - 1)

-----------------------------------------------------------------------------
(* Numeric helpers *)

Vec(v, d) == [v |-> v, d |-> d]

\* the value of pixels[0] when there is no pixel
Undefined == [v |-> <<>>, d |-> 0]

\* a metric's return value: a JavaScript number, num / den when finite
Number(n, d) == [kind |-> "number", num |-> n, den |-> d]
Infinity == [kind |-> "Infinity", num |-> 1, den |-> 0]
NegInfinity == [kind |-> "-Infinity", num |-> 0 - 1, den |-> 0]
NaN == [kind |-> "NaN", num |-> 0, den |-> 0]
NoValue == [kind |-> "none", num |-> 0, den |-> 0]

Sq(x) == x * x

-----------------------------------------------------------------------------
(* The component's state as useState constructs it.  sigma and epsilon are *)
(* numerators over ParamDen.                                               *)
ParamDen == 2
DefaultClusters == 5
DefaultMinSamples == 5

DefaultParameters ==
    [clusters |-> DefaultClusters, sigma |-> ParamDen, epsilon |-> ParamDen \div 2,
     minSamples |-> DefaultMinSamples]

Null ==
    [originalImage |-> "", numSegments |-> 0, averageSize |-> 0,
     silhouetteScore |-> NoValue, daviesBouldinIndex |-> NoValue,
     calinskiHarabaszIndex |-> NoValue]

\* no Image whose load is awaited
NoImage == [src |-> "", selectedAlgorithm |-> "", parameters |-> DefaultParameters]

\* lines 20-31
ToolMounted ==
    /\ uploadedFile = ""
    /\ uploadedImageUrl = ""
    /\ selectedAlgorithm = ""
    /\ parameters = DefaultParameters
    /\ result = Null
    /\ isProcessing = FALSE
    /\ img = NoImage
    /\ toast = ""

RECURSIVE SqrtIter(_, _)
SqrtIter(x, r) ==
    LET r2 == (r + (x \div r)) \div 2
    IN  IF r2 >= r THEN r ELSE SqrtIter(x, r2)

\* Math.sqrt on a non-negative integer, rounded down
ISqrt(x) == IF x = 0 THEN 0 ELSE SqrtIter(x, x)

\* a / b < c / d for a, c >= 0 and b, d > 0, without forming the products
RECURSIVE LessRat(_, _, _, _)
LessRat(a, b, c, d) ==
    LET q1 == a \div b
        q2 == c \div d
        r1 == a % b
        r2 == c % d
    IN  IF q1 # q2 THEN q1 < q2
        ELSE IF r2 = 0 THEN FALSE
        ELSE IF r1 = 0 THEN TRUE
        ELSE LessRat(d, r2, b, r1)

\* numerator of the squared distance of a and b; its denominator is Sq(a.d * b.d)
DistSqNum(a, b) ==
    Sq(a.v[1] * b.d - b.v[1] * a.d) + Sq(a.v[2] * b.d - b.v[2] * a.d)
        + Sq(a.v[3] * b.d - b.v[3] * a.d)

\* euclideanDistance(p, c1) < euclideanDistance(p, c2)
DistLess(p, c1, c2) ==
    LessRat(DistSqNum(p, c1), Sq(p.d * c1.d), DistSqNum(p, c2), Sq(p.d * c2.d))

\* euclideanDistance(a, b) in units of 1 / SqrtScale
euclideanDistance(a, b) ==
    ISqrt(Sq(SqrtScale) * DistSqNum(a, b)) \div (a.d * b.d)

\* Math.floor(Math.random() * n) when Math.random() returned j / RandDen
RandomIndex(j, n) == (j * n) \div RandDen

RECURSIVE SumSeq(_, _)
SumSeq(s, i) == IF i = 0 THEN 0 ELSE s[i] + SumSeq(s, i - 1)

Pixel(i) == Vec(imageData.pixels[i], 1)

NumPixels == Len(imageData.pixels)

-----------------------------------------------------------------------------
(* The assignment step shared by both implementations *)

\* a variant whose test is dist <= minDist: the last of several nearest wins
RECURSIVE NearestFromLast(_, _, _, _)
NearestFromLast(p, cents, j, best) ==
    IF j > Len(cents) THEN best
    ELSE IF best = 0 \/ ~DistLess(p, cents[best], cents[j])
         THEN NearestFromLast(p, cents, j + 1, j)
         ELSE NearestFromLast(p, cents, j + 1, best)

\* lines 47-53 (part_001: 35-45): the 1-based position the inner loop ends
\* with, scanning from position j with best so far (0: none yet)
RECURSIVE NearestFrom(_, _, _, _)
NearestFrom(p, cents, j, best) ==
    IF j > Len(cents) THEN best
    ELSE IF best = 0 \/ DistLess(p, cents[j], cents[best])
         THEN NearestFrom(p, cents, j + 1, j)
         ELSE NearestFrom(p, cents, j + 1, best)

\* a variant that returns the 1-based position
NearestCentroidOneBased(p, cents) == NearestFrom(p, cents, 1, 0)

\* the clusterIdx the inner loop leaves: 0 when there is no centroid
NearestCentroid(p, cents) ==
    LET best == NearestFrom(p, cents, 1, 0)
    IN  IF best = 0 THEN 0 ELSE best - 1

Members(lbls, l) == { i \in 1..Len(lbls) : lbls[i] = l }

\* the first pixel whose cluster index names no cluster (clusters[clusterIdx]
\* is undefined and the statement that uses it throws), 0 if there is none
FirstUnclustered(lbls) ==
    LET bad == { i \in 1..Len(lbls) : lbls[i] >= k }
    IN  IF bad = {} THEN 0 ELSE CHOOSE i \in bad : \A j \in bad : i <= j

\* the channel sums of the pixels lo .. hi labelled l (integer sums: the
\* order of the additions does not matter)
RECURSIVE ChannelSum(_, _, _, _)
ChannelSum(lbls, l, lo, hi) ==
    IF lo > hi THEN <<0, 0, 0>>
    ELSE IF lo = hi
         THEN IF lbls[lo] = l THEN imageData.pixels[lo] ELSE <<0, 0, 0>>
         ELSE LET mid == (lo + hi) \div 2
                  a == ChannelSum(lbls, l, lo, mid)
                  b == ChannelSum(lbls, l, mid + 1, hi)
              IN  <<a[1] + b[1], a[2] + b[2], a[3] + b[3]>>

\* component-wise mean of the pixels labelled l
ClusterMean(lbls, l) ==
    Vec(ChannelSum(lbls, l, 1, Len(lbls)), Cardinality(Members(lbls, l)))

-----------------------------------------------------------------------------
(* kMeansSegmentation with k-means++ seeding *)

Throw(e) ==
    /\ outcome' = e
    /\ pc' = "done"

\* lines 6-20: buffers, pixel extraction, first centroid
KppStart ==
    /\ pc = "start"
    /\ algorithm = "kpp"
    /\ labels' = [i \in 1..NumPixels |-> 0]
    /\ \E j \in RandSet :
         centroids' =
             IF NumPixels = 0 THEN <<Undefined>>
             ELSE <<Pixel(RandomIndex(j, NumPixels) + 1)>>
    /\ pc' = IF 1 < k THEN "seed" ELSE "lloyd"
    /\ UNCHANGED <<algorithm, imageData, k, changed, iterations, passes, used,
                   outcome>>
    /\ UNCHANGED otherVars

\* Math.min(...centroids.map(c => euclideanDistance(p, c)))
RECURSIVE MinDistance(_, _, _)
MinDistance(p, cents, j) ==
    IF j = 1 THEN euclideanDistance(p, cents[1])
    ELSE LET m == MinDistance(p, cents, j - 1)
             e == euclideanDistance(p, cents[j])
         IN  IF e < m THEN e ELSE m

SeedWeight(p, cents) == MinDistance(p, cents, Len(cents))

\* the first index whose cumulative weight reaches threshold = (j / RandDen) * sum,
\* 0 when the for loop ends without a push
RECURSIVE FirstReaching(_, _, _, _, _)
FirstReaching(distances, j, sum, i, cumulative) ==
    IF i > Len(distances) THEN 0
    ELSE IF RandDen * (cumulative + distances[i]) >= j * sum THEN i
         ELSE FirstReaching(distances, j, sum, i + 1, cumulative + distances[i])

SeedPick(cents, j) ==
    LET distances == [i \in 1..NumPixels |-> SeedWeight(Pixel(i), cents)]
        sum == SumSeq(distances, NumPixels)
    IN  FirstReaching(distances, j, sum, 1, 0)

\* lines 21-35: one iteration of while (centroids.length < k)
KppSeed ==
    /\ pc = "seed"
    /\ algorithm = "kpp"
    /\ Len(centroids) < k
    /\ \E j \in RandSet :
         LET i == SeedPick(centroids, j)
         IN  centroids' = IF i = 0 THEN centroids ELSE Append(centroids, Pixel(i))
    /\ pc' = IF Len(centroids') < k THEN "seed" ELSE "lloyd"
    /\ UNCHANGED <<algorithm, imageData, k, labels, changed, iterations, passes,
                   used, outcome>>
    /\ UNCHANGED otherVars

\* a variant that reseeds an empty cluster with a random pixel
UpdatedCentroidFromPixel(lbls, cents, l, j) ==
    IF Members(lbls, l) # {}
    THEN ClusterMean(lbls, l)
    ELSE IF NumPixels = 0 THEN Undefined
         ELSE Pixel(RandomIndex(j, NumPixels) + 1)

\* lines 61-65: the new centroid of cluster l (0-based), draw j for an empty one
UpdatedCentroid(lbls, cents, l, j) ==
    IF Members(lbls, l) # {}
    THEN ClusterMean(lbls, l)
    ELSE cents[RandomIndex(j, Len(cents)) + 1]

\* line 66: changed && iterations++ < 100
LoopContinues(ch, its) == ch /\ its < MaxIterations

\* lines 39-66: one iteration of the do-while loop, its test included.  A
\* pass that throws (line 56) has assigned the labels up to the pixel it
\* throws at.
KppPass ==
    /\ pc = "lloyd"
    /\ algorithm = "kpp"
    /\ IF k < 0
       THEN /\ Throw("RangeError")
            /\ UNCHANGED <<centroids, labels, changed, iterations, passes, used>>
       ELSE LET assigned == [i \in 1..NumPixels |-> NearestCentroid(Pixel(i), centroids)]
                bad == FirstUnclustered(assigned)
            IN  /\ passes' = passes + 1
                /\ used' = centroids
                /\ IF bad # 0
                   THEN /\ Throw("TypeError")
                        /\ labels' = [i \in 1..NumPixels |->
                                         IF i <= bad THEN assigned[i] ELSE labels[i]]
                        /\ changed' = \E i \in 1..bad : assigned[i] # labels[i]
                        /\ UNCHANGED <<centroids, iterations>>
                   ELSE /\ labels' = assigned
                        /\ changed' = (labels' # labels)
                        /\ LET empty == { l \in 0..(k - 1) : Members(labels', l) = {} }
                           IN  \E draws \in [empty -> RandSet] :
                                 centroids' =
                                     [c \in 1..k |->
                                         UpdatedCentroid(labels', centroids, c - 1,
                                             IF (c - 1) \in empty THEN draws[c - 1] ELSE 0)]
                        /\ iterations' = IF changed' THEN iterations + 1 ELSE iterations
                        /\ pc' = IF LoopContinues(changed', iterations)
                                 THEN "lloyd" ELSE "output"
                        /\ UNCHANGED outcome
    /\ UNCHANGED <<algorithm, imageData, k>>
    /\ UNCHANGED otherVars

\* lines 69-78: recolour with the centroid colours and return
KppReturn ==
    /\ pc = "output"
    /\ algorithm = "kpp"
    /\ IF \E i \in 1..NumPixels : centroids[labels[i] + 1] = Undefined
       THEN Throw("TypeError")
       ELSE /\ outcome' = "returned"
            /\ pc' = "done"
    /\ UNCHANGED <<algorithm, imageData, k, centroids, labels, changed, iterations,
                   passes, used>>
    /\ UNCHANGED otherVars

-----------------------------------------------------------------------------
(* kMeansSegmentation with random centroids and 15 fixed iterations *)

\* lines 7-19
K15Start ==
    /\ pc = "start"
    /\ algorithm = "k15"
    /\ \E draws \in [1..(IF k > 0 THEN k ELSE 0) -> [1..3 -> RandSet]] :
         centroids' =
             [c \in 1..(IF k > 0 THEN k ELSE 0) |->
                 Vec(<<draws[c][1] * ChannelMax, draws[c][2] * ChannelMax,
                       draws[c][3] * ChannelMax>>, RandDen)]
    /\ pc' = "iterate"
    /\ UNCHANGED <<algorithm, imageData, k, labels, changed, iterations, passes,
                   used, outcome>>
    /\ UNCHANGED otherVars

\* lines 52-60: a centroid changes only when its cluster is not empty
K15Centroid(lbls, cents, l) ==
    IF Members(lbls, l) # {} THEN ClusterMean(lbls, l) ELSE cents[l + 1]

\* lines 22-61: one iteration of the for loop.  An iteration that throws
\* (line 47) has pushed the labels of the pixels before the one it throws at.
K15Iterate ==
    /\ pc = "iterate"
    /\ algorithm = "k15"
    /\ IF k < 0
       THEN /\ Throw("RangeError")
            /\ UNCHANGED <<centroids, labels, iterations, passes, used>>
       ELSE LET assigned == [i \in 1..NumPixels |-> NearestCentroid(Pixel(i), centroids)]
                bad == FirstUnclustered(assigned)
            IN  /\ passes' = passes + 1
                /\ used' = centroids
                /\ IF bad # 0
                   THEN /\ Throw("TypeError")
                        /\ labels' = SubSeq(assigned, 1, bad - 1)
                        /\ UNCHANGED <<centroids, iterations>>
                   ELSE /\ labels' = assigned
                        /\ centroids' =
                               [c \in 1..Len(centroids) |->
                                   K15Centroid(labels', centroids, c - 1)]
                        /\ iterations' = iterations + 1
                        /\ pc' = IF iterations' < FixedIterations
                                 THEN "iterate" ELSE "output"
                        /\ UNCHANGED outcome
    /\ UNCHANGED <<algorithm, imageData, k, changed>>
    /\ UNCHANGED otherVars

\* lines 63-82: synthetic colours and return
K15Return ==
    /\ pc = "output"
    /\ algorithm = "k15"
    /\ outcome' = "returned"
    /\ pc' = "done"
    /\ UNCHANGED <<algorithm, imageData, k, centroids, labels, changed, iterations,
                   passes, used>>
    /\ UNCHANGED otherVars

-----------------------------------------------------------------------------
Init ==
    /\ pc = "start"
    /\ algorithm \in {"kpp", "k15"}
    /\ imageData \in Images
    /\ k \in KSet
    /\ centroids = <<>>
    /\ labels = <<>>
    /\ changed = FALSE
    /\ iterations = 0
    /\ passes = 0
    /\ used = <<>>
    /\ outcome = "running"
    /\ parameter = 0
    /\ clusters = <<>>
    /\ value = NoValue
    /\ ToolMounted

Next ==
    \/ KppStart
    \/ KppSeed
    \/ KppPass
    \/ KppReturn
    \/ K15Start
    \/ K15Iterate
    \/ K15Return

Spec == Init /\ [][Next]_vars

-----------------------------------------------------------------------------
(* Cluster validity metrics.  Distances and the scores built from them are *)
(* in units of 1 / SqrtScale; squared distances are exact.                 *)

Black == <<0, 0, 0>>
White == <<255, 255, 255>>
MetricPalette == {Black, White}

MaxMetricPixels == 4
MaxCentroids == 2

MetricImages ==
    UNION { { [width |-> w, height |-> 1, pixels |-> p] : p \in [1..w -> MetricPalette] }
            : w \in 1..MaxMetricPixels }

CentroidLists ==
    UNION { [1..c -> { Vec(colour, 1) : colour \in MetricPalette }] : c \in 0..MaxCentroids }

\* the pixels labelled l, in pixel order
RECURSIVE PixelsLabelled(_, _, _)
PixelsLabelled(lbls, l, i) ==
    IF i = 0 THEN <<>>
    ELSE IF lbls[i] = l
         THEN Append(PixelsLabelled(lbls, l, i - 1), Pixel(i))
         ELSE PixelsLabelled(lbls, l, i - 1)

PartitionByLabel(lbls, c) == [l \in 1..c |-> PixelsLabelled(lbls, l - 1, Len(lbls))]

\* sum of the distances from p to the points of a list
RECURSIVE DistanceSum(_, _, _)
DistanceSum(p, points, i) ==
    IF i = 0 THEN 0
    ELSE DistanceSum(p, points, i - 1) + euclideanDistance(p, points[i])

UniqueLabels(lbls) == { lbls[i] : i \in 1..Len(lbls) }

\* lines 19-25: a, the mean distance to the rest of the pixel's own cluster
IntraDistance(lbls, i) ==
    LET same == PixelsLabelled(lbls, lbls[i], Len(lbls))
    IN  IF Len(same) > 1
        THEN DistanceSum(Pixel(i), same, Len(same)) \div (Len(same) - 1)
        ELSE 0

\* line 36: the mean distance to the pixels labelled l
InterDistance(lbls, i, l) ==
    LET other == PixelsLabelled(lbls, l, Len(lbls))
    IN  IF Len(other) > 0
        THEN DistanceSum(Pixel(i), other, Len(other)) \div Len(other)
        ELSE 0

SetMin(S) == CHOOSE x \in S : \A y \in S : x <= y

\* lines 16-44: the silhouette coefficient s of pixel i, NaN when b is Infinity
PixelScore(lbls, i) ==
    LET a == IntraDistance(lbls, i)
        others == UniqueLabels(lbls) \ {lbls[i]}
    IN  IF a = 0 THEN Number(0, SqrtScale)
        ELSE IF others = {} THEN NaN
        ELSE LET b == SetMin({ InterDistance(lbls, i, l) : l \in others })
                 m == IF a > b THEN a ELSE b
             IN  Number(((b - a) * SqrtScale) \div m, SqrtScale)

RECURSIVE TotalScore(_, _)
TotalScore(lbls, i) ==
    IF i = 0 THEN Number(0, SqrtScale)
    ELSE LET t == TotalScore(lbls, i - 1)
             sc == PixelScore(lbls, i)
         IN  IF t.kind = "NaN" \/ sc.kind = "NaN" THEN NaN
             ELSE Number(t.num + sc.num, SqrtScale)

\* lines 3-48
calculateSilhouetteScore(lbls) ==
    LET t == TotalScore(lbls, NumPixels)
    IN  IF t.kind = "NaN" THEN NaN ELSE Number(t.num, SqrtScale * NumPixels)

\* lines 122-130
calculateScatter(cluster, centroid) ==
    IF Len(cluster) = 0 THEN 0
    ELSE DistanceSum(centroid, cluster, Len(cluster)) \div Len(cluster)

\* lines 59-63: ratio = (scatterI + scatterJ) / distance
Ratio(cents, clus, i, j) ==
    LET sc == calculateScatter(clus[i], cents[i]) + calculateScatter(clus[j], cents[j])
        distance == euclideanDistance(cents[i], cents[j])
    IN  IF distance = 0
        THEN IF sc = 0 THEN NaN ELSE Infinity
        ELSE Number((sc * SqrtScale) \div distance, SqrtScale)

\* Math.max
MathMax(x, y) ==
    IF x.kind = "NaN" \/ y.kind = "NaN" THEN NaN
    ELSE IF x.kind = "Infinity" \/ y.kind = "Infinity" THEN Infinity
    ELSE IF x.num >= y.num THEN x ELSE y

\* a + b
Plus(x, y) ==
    IF x.kind = "NaN" \/ y.kind = "NaN" THEN NaN
    ELSE IF x.kind = "Infinity" \/ y.kind = "Infinity" THEN Infinity
    ELSE Number(x.num + y.num, SqrtScale)

\* lines 55-66: maxRatio of cluster i over j = 1 .. upto
RECURSIVE MaxRatio(_, _, _, _)
MaxRatio(cents, clus, i, upto) ==
    IF upto = 0 THEN Number(0, SqrtScale)
    ELSE LET m == MaxRatio(cents, clus, i, upto - 1)
         IN  IF upto = i THEN m ELSE MathMax(m, Ratio(cents, clus, i, upto))

RECURSIVE DbSum(_, _, _)
DbSum(cents, clus, i) ==
    IF i = 0 THEN Number(0, SqrtScale)
    ELSE Plus(DbSum(cents, clus, i - 1), MaxRatio(cents, clus, i, Len(cents)))

\* line 59: calculateScatter reads cluster.length of clusters[i]
ScatterThrows(cents, clus) == Len(cents) >= 2 /\ Len(clus) < Len(cents)

\* lines 50-72, when nothing throws
calculateDaviesBouldinIndex(cents, clus) ==
    LET total == DbSum(cents, clus, Len(cents))
    IN  IF Len(cents) = 0 THEN NaN
        ELSE IF total.kind = "number" THEN Number(total.num, SqrtScale * Len(cents))
        ELSE total

RECURSIVE PixelSum(_)
PixelSum(i) ==
    IF i = 0 THEN <<0, 0, 0>>
    ELSE LET rest == PixelSum(i - 1)
             p == imageData.pixels[i]
         IN  <<rest[1] + p[1], rest[2] + p[2], rest[3] + p[3]>>

\* lines 89-98
OverallCentroid == Vec(PixelSum(NumPixels), NumPixels)

\* lines 100-106, times Sq(n): the centroids of this model have d = 1
RECURSIVE BetweenSS(_, _, _)
BetweenSS(cents, lbls, i) ==
    IF i = 0 THEN 0
    ELSE BetweenSS(cents, lbls, i - 1)
             + Cardinality(Members(lbls, i - 1)) * DistSqNum(cents[i], OverallCentroid)

\* lines 108-113
RECURSIVE WithinSS(_, _, _)
WithinSS(cents, lbls, i) ==
    IF i = 0 THEN 0
    ELSE WithinSS(cents, lbls, i - 1) + DistSqNum(Pixel(i), cents[lbls[i] + 1])

\* line 111: centroids[labels[i]] is undefined
CentroidMissing(cents, lbls) == \E i \in 1..Len(lbls) : lbls[i] + 1 > Len(cents)

\* line 115: (betweenSS / (k - 1)) / (withinSS / (n - k)), when nothing throws
calculateCalinskiHarabaszIndex(cents, lbls) ==
    LET kk == Len(cents)
        n == NumPixels
        b == BetweenSS(cents, lbls, kk)
        w == WithinSS(cents, lbls, n)
        xKind == IF kk = 1 THEN (IF b = 0 THEN "NaN" ELSE "Infinity") ELSE "number"
        yKind == IF n = kk THEN (IF w = 0 THEN "NaN" ELSE "Infinity") ELSE "number"
    IN  IF xKind = "NaN" \/ yKind = "NaN" THEN NaN
        ELSE IF xKind = "Infinity"
             THEN IF yKind = "Infinity" THEN NaN
                  ELSE IF n > kk THEN Infinity ELSE NegInfinity
        ELSE IF yKind = "Infinity" THEN Number(0, 1)
        ELSE IF w = 0
             THEN IF b = 0 THEN NaN
                  ELSE IF n > kk THEN Infinity ELSE NegInfinity
        ELSE Number(b * (n - kk), Sq(n) * (kk - 1) * w)

MetricSilhouette ==
    /\ pc = "start"
    /\ algorithm = "silhouette"
    /\ value' = calculateSilhouetteScore(labels)
    /\ outcome' = "returned"
    /\ pc' = "done"
    /\ UNCHANGED <<algorithm, imageData, centroids, labels, parameter, clusters>>
    /\ UNCHANGED loopVars

MetricDaviesBouldin ==
    /\ pc = "start"
    /\ algorithm = "daviesBouldin"
    /\ IF ScatterThrows(centroids, clusters)
       THEN /\ Throw("TypeError")
            /\ UNCHANGED value
       ELSE /\ value' = calculateDaviesBouldinIndex(centroids, clusters)
            /\ outcome' = "returned"
            /\ pc' = "done"
    /\ UNCHANGED <<algorithm, imageData, centroids, labels, parameter, clusters>>
    /\ UNCHANGED loopVars

MetricCalinskiHarabasz ==
    /\ pc = "start"
    /\ algorithm = "calinskiHarabasz"
    /\ IF CentroidMissing(centroids, labels)
       THEN /\ Throw("TypeError")
            /\ UNCHANGED value
       ELSE /\ value' = calculateCalinskiHarabaszIndex(centroids, labels)
            /\ outcome' = "returned"
            /\ pc' = "done"
    /\ UNCHANGED <<algorithm, imageData, centroids, labels, parameter, clusters>>
    /\ UNCHANGED loopVars

\* the arguments: an image, a labelling with labels below the number of
\* centroids, centroids, and for the clusters either the partition by label or
\* the empty list the component passes
InitMetrics ==
    /\ pc = "start"
    /\ algorithm \in {"silhouette", "daviesBouldin", "calinskiHarabasz"}
    /\ imageData \in MetricImages
    /\ centroids \in CentroidLists
    /\ labels \in [1..NumPixels -> 0..(IF Len(centroids) > 1 THEN Len(centroids) - 1 ELSE 0)]
    /\ clusters \in {<<>>, PartitionByLabel(labels, Len(centroids))}
    /\ k = Len(centroids)
    /\ changed = FALSE
    /\ iterations = 0
    /\ passes = 0
    /\ used = <<>>
    /\ outcome = "running"
    /\ parameter = 0
    /\ value = NoValue
    /\ ToolMounted

NextMetrics ==
    \/ MetricSilhouette
    \/ MetricDaviesBouldin
    \/ MetricCalinskiHarabasz

SpecMetrics == InitMetrics /\ [][NextMetrics]_vars

-----------------------------------------------------------------------------
(* meanShiftSegmentation and watershedSegmentation.  The bandwidth / sigma *)
(* argument is parameter / ParamDen, a positive number.                    *)

MaxWidth == 4
MaxHeight == 3
MaxParam == 2

ModeFactor == 40
SeedFactor == 15
MaxRegions == 12
Saturation == 85
Lightness == 65

Dim == <<40, 10, 10>>
RegionPalette == {Dark, Dim}

RegionImages ==
    UNION { { [width |-> w, height |-> h, pixels |-> p] : p \in [1..(w * h) -> RegionPalette] }
            : w \in 1..MaxWidth, h \in 1..MaxHeight }

\* line 107-108: dist < bandwidth * 40
WithinBandwidth(p, mode) ==
    DistSqNum(p, mode) * Sq(ParamDen) < Sq(ModeFactor * parameter)

\* lines 106-113: the index of the first mode within the bandwidth, 0 if none
RECURSIVE FindMode(_, _, _)
FindMode(p, modes, j) ==
    IF j > Len(modes) THEN 0
    ELSE IF WithinBandwidth(p, modes[j]) THEN j
         ELSE FindMode(p, modes, j + 1)

\* lines 98-121: the modes after the pixels 1 .. i
RECURSIVE ModesAfter(_)
ModesAfter(i) ==
    IF i = 0 THEN <<>>
    ELSE LET modes == ModesAfter(i - 1)
         IN  IF FindMode(Pixel(i), modes, 1) = 0 THEN Append(modes, Pixel(i)) ELSE modes

\* lines 115-120: the label pushed for pixel i
ModeIndex(i) ==
    LET modes == ModesAfter(i - 1)
        j == FindMode(Pixel(i), modes, 1)
    IN  IF j = 0 THEN Len(modes) ELSE j - 1

\* lines 91-142
MeanShiftRun ==
    /\ pc = "start"
    /\ algorithm = "meanshift"
    /\ labels' = [i \in 1..NumPixels |-> ModeIndex(i)]
    /\ centroids' = ModesAfter(NumPixels)
    /\ outcome' = "returned"
    /\ pc' = "done"
    /\ UNCHANGED <<algorithm, imageData, parameter, clusters, value>>
    /\ UNCHANGED loopVars

\* data[(y * width + x) * 4]: the red channel, x and y 0-based
Red(x, y) == imageData.pixels[y * imageData.width + x + 1][1]

\* lines 163-165 and 176: gradient < sigma * 15
BelowThreshold(x, y) ==
    LET gx == Red(x + 1, y) - Red(x - 1, y)
        gy == Red(x, y + 1) - Red(x, y - 1)
    IN  (Sq(gx) + Sq(gy)) * Sq(ParamDen) < Sq(SeedFactor * parameter)

\* lines 158-179: the interior pixels whose gradient is below the threshold
Seeds ==
    { <<x, y>> \in (1..(imageData.width - 2)) \X (1..(imageData.height - 2)) :
        BelowThreshold(x, y) }

\* line 182
NumRegions ==
    IF Cardinality(Seeds) < MaxRegions THEN Cardinality(Seeds) ELSE MaxRegions

\* hue2rgb(p, q, t) times 10000 * td, for t = tn / td and p, q times 10000
Hue2Rgb(p, q, tn0, td) ==
    LET tn == IF tn0 < 0 THEN tn0 + td ELSE IF tn0 > td THEN tn0 - td ELSE tn0
    IN  IF 6 * tn < td THEN p * td + (q - p) * 6 * tn
        ELSE IF 2 * tn < td THEN q * td
        ELSE IF 3 * tn < 2 * td THEN p * td + (q - p) * (4 * td - 6 * tn)
        ELSE p * td

\* Math.round(num / den * 255) for num, den >= 0
Round255(num, den) == (2 * ChannelMax * num + den) \div (2 * den)

\* lines 207-230: hslToRgb(hn / hd, sat / 100, light / 100)
hslToRgb(hn, hd, sat, light) ==
    IF sat = 0
    THEN LET c == Round255(light, 100) IN <<c, c, c>>
    ELSE LET q == IF light < 50 THEN light * (100 + sat)
                  ELSE (light + sat) * 100 - light * sat
             p == 2 * light * 100 - q
             td == 3 * hd
         IN  << Round255(Hue2Rgb(p, q, 3 * hn + hd, td), 10000 * td),
                Round255(Hue2Rgb(p, q, 3 * hn, td), 10000 * td),
                Round255(Hue2Rgb(p, q, 3 * hn - hd, td), 10000 * td) >>

\* lines 185-189
RegionCentroids ==
    [i \in 1..NumRegions |-> Vec(hslToRgb(i - 1, NumRegions, Saturation, Lightness), 1)]

\* lines 151-203: with no region, pixelIdx % 0 is NaN and
\* regionCentroids[NaN][0] throws at the first pixel
WatershedRun ==
    /\ pc = "start"
    /\ algorithm = "watershed"
    /\ IF NumRegions = 0 /\ NumPixels > 0
       THEN /\ Throw("TypeError")
            /\ UNCHANGED <<labels, centroids>>
       ELSE /\ labels' = [i \in 1..NumPixels |-> (i - 1) % NumRegions]
            /\ centroids' = RegionCentroids
            /\ outcome' = "returned"
            /\ pc' = "done"
    /\ UNCHANGED <<algorithm, imageData, parameter, clusters, value>>
    /\ UNCHANGED loopVars

InitRegions ==
    /\ pc = "start"
    /\ algorithm \in {"meanshift", "watershed"}
    /\ imageData \in RegionImages
    /\ parameter \in 1..MaxParam
    /\ k = 0
    /\ centroids = <<>>
    /\ labels = <<>>
    /\ changed = FALSE
    /\ iterations = 0
    /\ passes = 0
    /\ used = <<>>
    /\ outcome = "running"
    /\ clusters = <<>>
    /\ value = NoValue
    /\ ToolMounted

NextRegions ==
    \/ MeanShiftRun
    \/ WatershedRun

SpecRegions == InitRegions /\ [][NextRegions]_vars

-----------------------------------------------------------------------------
(* Slow convergence: a 200 x 1 image whose red channel runs 0 .. 199, k =  *)
(* 12, at line 37 after a seeding that chose the twelve darkest pixels.    *)
(* Every one of these seeds is at a positive distance from the seeds       *)
(* before it, so each has a positive weight and some draw selects it.      *)
SlowWidth == 200
SlowK == 12

SlowImage ==
    [width |-> SlowWidth, height |-> 1,
     pixels |-> [i \in 1..SlowWidth |-> <<i - 1, 0, 0>>]]

InitSlow ==
    /\ pc = "lloyd"
    /\ algorithm = "kpp"
    /\ imageData = SlowImage
    /\ k = SlowK
    /\ centroids = [c \in 1..SlowK |-> Vec(SlowImage.pixels[c], 1)]
    /\ labels = [i \in 1..SlowWidth |-> 0]
    /\ changed = FALSE
    /\ iterations = 0
    /\ passes = 0
    /\ used = <<>>
    /\ outcome = "running"
    /\ parameter = 0
    /\ clusters = <<>>
    /\ value = NoValue
    /\ ToolMounted

NextSlow ==
    \/ KppPass
    \/ KppReturn

SpecSlow == InitSlow /\ [][NextSlow]_vars

-----------------------------------------------------------------------------
(* The SegmentationTool component.  Its handlers run one at a time; the     *)
(* onload callback of a run is a handler too, and while it executes (pc is  *)
(* not "idle") no other handler starts.  kMeansSegmentation is the          *)
(* k-means++ function above, meanShiftSegmentation and                      *)
(* watershedSegmentation the functions above.  The two random display       *)
(* fields of the result (clusterTendency, homogeneity) are left out.        *)

MaxClusters == 2

Files == {"flat.png", "edge.png", "notes.txt"}

\* the dataUrl handed to handleImageUpload together with the file
DataUrl(f) ==
    CASE f = "flat.png" -> "data:flat.png"
      [] f = "edge.png" -> "data:edge.png"
      [] OTHER -> "data:notes.txt"

FlatImage == [width |-> 3, height |-> 3, pixels |-> [i \in 1..9 |-> Dark]]
EdgeImage == [width |-> 2, height |-> 1, pixels |-> <<Dark, Bright>>]

\* the browser can decode the URL: onload fires, otherwise onerror
Decodable(url) == url \in {"data:flat.png", "data:edge.png"}

\* lines 131-136: what getImageData returns for the loaded image
Decoded(url) == IF url = "data:flat.png" THEN FlatImage ELSE EdgeImage

Algorithms == {"kmeans", "meanshift", "watershed"}

\* the variables of the segmentation functions
localVars == <<pc, algorithm, imageData, k, centroids, labels, changed, iterations,
               passes, used, outcome, parameter, clusters, value>>

NoImageData == [width |-> 0, height |-> 0, pixels |-> <<>>]

\* no callback is executing
Idle ==
    /\ pc = "idle"
    /\ algorithm = ""
    /\ imageData = NoImageData
    /\ k = 0
    /\ centroids = <<>>
    /\ labels = <<>>
    /\ changed = FALSE
    /\ iterations = 0
    /\ passes = 0
    /\ used = <<>>
    /\ outcome = "running"
    /\ parameter = 0
    /\ clusters = <<>>
    /\ value = NoValue

\* a callback ends: its locals are gone
BecomeIdle ==
    /\ pc' = "idle"
    /\ algorithm' = ""
    /\ imageData' = NoImageData
    /\ k' = 0
    /\ centroids' = <<>>
    /\ labels' = <<>>
    /\ changed' = FALSE
    /\ iterations' = 0
    /\ passes' = 0
    /\ used' = <<>>
    /\ outcome' = "running"
    /\ parameter' = 0
    /\ clusters' = <<>>
    /\ value' = NoValue

\* lines 33-41
handleImageUpload ==
    /\ pc = "idle"
    /\ \E file \in Files :
         /\ uploadedFile' = file
         /\ uploadedImageUrl' = DataUrl(file)
    /\ result' = Null
    /\ toast' = "Image uploaded successfully"
    /\ UNCHANGED <<selectedAlgorithm, parameters, isProcessing, img>>
    /\ UNCHANGED localVars

\* lines 43-47
handleClearImage ==
    /\ pc = "idle"
    /\ uploadedFile' = ""
    /\ uploadedImageUrl' = ""
    /\ result' = Null
    /\ UNCHANGED <<selectedAlgorithm, parameters, isProcessing, img, toast>>
    /\ UNCHANGED localVars

\* lines 49-51
handleParameterChange ==
    /\ pc = "idle"
    /\ \/ \E v \in 1..MaxClusters : parameters' = [parameters EXCEPT !.clusters = v]
       \/ \E v \in 1..MaxParam : parameters' = [parameters EXCEPT !.sigma = v]
    /\ UNCHANGED <<uploadedFile, uploadedImageUrl, selectedAlgorithm, result,
                   isProcessing, img, toast>>
    /\ UNCHANGED localVars

\* line 330: onAlgorithmChange
setSelectedAlgorithm ==
    /\ pc = "idle"
    /\ \E a \in Algorithms : selectedAlgorithm' = a
    /\ UNCHANGED <<uploadedFile, uploadedImageUrl, parameters, result, isProcessing,
                   img, toast>>
    /\ UNCHANGED localVars

\* lines 279-287
handleReset ==
    /\ pc = "idle"
    /\ result' = Null
    /\ parameters' = DefaultParameters
    /\ UNCHANGED <<uploadedFile, uploadedImageUrl, selectedAlgorithm, isProcessing,
                   img, toast>>
    /\ UNCHANGED localVars

\* lines 115-237, called by the Run button, which line 342 disables while
\* there is no file, no algorithm or a run is processing.  The Image
\* remembers the url, the algorithm and the parameters of this render.
handleSegmentation ==
    /\ pc = "idle"
    /\ ~(uploadedFile = "" \/ selectedAlgorithm = "" \/ isProcessing)
    /\ IF uploadedFile = "" \/ selectedAlgorithm = ""
       THEN /\ toast' = "Missing requirements"
            /\ UNCHANGED <<isProcessing, img>>
       ELSE /\ isProcessing' = TRUE
            /\ img' = [src |-> uploadedImageUrl,
                       selectedAlgorithm |-> selectedAlgorithm,
                       parameters |-> parameters]
            /\ UNCHANGED toast
    /\ UNCHANGED <<uploadedFile, uploadedImageUrl, selectedAlgorithm, parameters,
                   result>>
    /\ UNCHANGED localVars

\* lines 148-160: the function the switch calls
Dispatched(name) ==
    CASE name = "meanshift" -> "meanshift"
      [] name = "watershed" -> "watershed"
      [] OTHER -> "kpp"

\* lines 130-160: the load event of a decodable image starts the callback,
\* which reads the pixels and calls the selected function
ImgOnload ==
    /\ Idle
    /\ img # NoImage
    /\ Decodable(img.src)
    /\ pc' = "start"
    /\ imageData' = Decoded(img.src)
    /\ algorithm' = Dispatched(img.selectedAlgorithm)
    /\ k' = img.parameters.clusters
    /\ parameter' = img.parameters.sigma
    /\ UNCHANGED <<centroids, labels, changed, iterations, passes, used, outcome,
                   clusters, value>>
    /\ UNCHANGED toolVars

\* line 181 and 197-198: the number of cluster images
NumSegments == Cardinality(UniqueLabels(labels))

\* lines 162-215: the rest of the callback.  Nothing catches what the
\* function or a metric throws here: the try of line 127 was left when
\* handleSegmentation returned.
ImgOnloadEnd ==
    /\ pc = "done"
    /\ img # NoImage
    /\ IF \/ outcome # "returned"
          \/ ScatterThrows(centroids, <<>>)
          \/ CentroidMissing(centroids, labels)
       THEN UNCHANGED <<result, isProcessing, toast>>
       ELSE /\ result' =
                  [originalImage |-> img.src,
                   numSegments |-> NumSegments,
                   averageSize |-> (imageData.width * imageData.height) \div NumSegments,
                   silhouetteScore |-> calculateSilhouetteScore(labels),
                   daviesBouldinIndex |-> calculateDaviesBouldinIndex(centroids, <<>>),
                   calinskiHarabaszIndex |->
                       calculateCalinskiHarabaszIndex(centroids, labels)]
            /\ isProcessing' = FALSE
            /\ toast' = "Segmentation completed"
    /\ img' = NoImage
    /\ BecomeIdle
    /\ UNCHANGED <<uploadedFile, uploadedImageUrl, selectedAlgorithm, parameters>>

\* lines 218-225
ImgOnerror ==
    /\ Idle
    /\ img # NoImage
    /\ ~Decodable(img.src)
    /\ isProcessing' = FALSE
    /\ toast' = "Image loading failed"
    /\ img' = NoImage
    /\ UNCHANGED <<uploadedFile, uploadedImageUrl, selectedAlgorithm, parameters,
                   result>>
    /\ UNCHANGED localVars

InitTool ==
    /\ Idle
    /\ ToolMounted

NextTool ==
    \/ handleImageUpload
    \/ handleClearImage
    \/ handleParameterChange
    \/ setSelectedAlgorithm
    \/ handleReset
    \/ handleSegmentation
    \/ ImgOnload
    \/ KppStart
    \/ KppSeed
    \/ KppPass
    \/ KppReturn
    \/ MeanShiftRun
    \/ WatershedRun
    \/ ImgOnloadEnd
    \/ ImgOnerror

SpecTool == InitTool /\ [][NextTool]_vars

-----------------------------------------------------------------------------
(* Claims about kMeansSegmentation *)

ValidK == NumPixels >= 1 /\ 1 <= k /\ k <= NumPixels

Finished == pc = "done"

\* no draw makes the seeding loop push a centroid: it runs forever
SeedingStuck ==
    /\ pc = "seed"
    /\ \A j \in RandSet : SeedPick(centroids, j) = 0

\* C1: for n >= 1 pixels and 1 <= k <= n, whatever the random draws, both
\* implementations return (they do not throw) a labels array of length n
\* whose entries all lie in 0 .. k - 1.
C1_LabelsInRange ==
    ValidK =>
        /\ ~SeedingStuck
        /\ Finished =>
            /\ outcome = "returned"
            /\ Len(labels) = NumPixels
            /\ \A i \in 1..NumPixels : labels[i] \in 0..(k - 1)

C1_Witness ==
    /\ Finished
    /\ outcome = "returned"
    /\ algorithm = "kpp"
    /\ imageData = ImageRamp
    /\ k = 3
    /\ {labels[i] : i \in 1..NumPixels} = {0, 1, 2}

\* C2: the Lloyd loop of the k-means++ implementation executes at most 100
\* assignment passes in every run.
C2_AtMost100Passes == algorithm = "kpp" => passes <= MaxIterations

\* C3: called with k <= 0 or k > n, kMeansSegmentation fails with an
\* InvalidParameter error: it never returns and never fails otherwise.
C3_InvalidKRejected ==
    (Finished /\ (k <= 0 \/ k > NumPixels)) => outcome = "InvalidParameter"

\* C4: on a zero-pixel image and k >= 1 the k-means++ implementation
\* terminates and fails with an EmptyInput error: the seeding loop cannot run
\* forever and no result with an undefined centroid is returned.
C4_EmptyInputRejected ==
    (algorithm = "kpp" /\ NumPixels = 0 /\ k >= 1) =>
        /\ Finished => outcome = "EmptyInput"
        /\ ~SeedingStuck
        /\ ~(outcome = "returned" /\ \E c \in 1..Len(centroids) : centroids[c] = Undefined)

SameColour(c, colour) ==
    /\ c # Undefined
    /\ \A ch \in 1..3 : c.v[ch] = colour[ch] * c.d

\* C8: on the 2 x 2 image (10,10,10), (10,10,10), (240,240,240), (240,240,240)
\* with k = 2 every run returns the centroids (10,10,10) and (240,240,240), in
\* either order, the dark pixels sharing one label and the bright ones the other.
C8_TwoByTwoConverges ==
    (Finished /\ imageData = Image2x2 /\ k = 2) =>
        /\ outcome = "returned"
        /\ Len(centroids) = 2
        /\ \/ SameColour(centroids[1], Dark) /\ SameColour(centroids[2], Bright)
           \/ SameColour(centroids[1], Bright) /\ SameColour(centroids[2], Dark)
        /\ labels[1] = labels[2]
        /\ labels[3] = labels[4]
        /\ labels[1] # labels[3]

\* the squared distance of pixel p to the nearest of the chosen centroids
RECURSIVE MinSquaredDistance(_, _, _)
MinSquaredDistance(p, cents, j) ==
    IF j = 1 THEN DistSqNum(p, cents[1])
    ELSE LET m == MinSquaredDistance(p, cents, j - 1)
             e == DistSqNum(p, cents[j])
         IN  IF e < m THEN e ELSE m

\* cumulative-sum threshold sampling with squared distances as weights
SquaredSeedPick(cents, j) ==
    LET weights == [i \in 1..NumPixels |-> MinSquaredDistance(Pixel(i), cents, Len(cents))]
        sum == SumSeq(weights, NumPixels)
    IN  FirstReaching(weights, j, sum, 1, 0)

\* C10: in seeding, for every draw, the pixel chosen for the next centroid is
\* the one that threshold sampling picks when every pixel weighs the squared
\* distance to its nearest chosen centroid.
C10_SeedingWeighsSquaredDistance ==
    (pc = "seed" /\ NumPixels >= 1) =>
        \A j \in RandSet : SeedPick(centroids, j) = SquaredSeedPick(centroids, j)

-----------------------------------------------------------------------------
(* Claims about the passes of kMeansSegmentation *)

\* an assignment pass has run to its end (it did not throw)
PassCompleted == passes >= 1 /\ outcome \in {"running", "returned"}

\* the squared distances of pixel p to c1 and c2, on a common denominator
CloserThan(p, c1, c2) == DistSqNum(p, c1) * Sq(c2.d) < DistSqNum(p, c2) * Sq(c1.d)

EquallyFar(p, c1, c2) == DistSqNum(p, c1) * Sq(c2.d) = DistSqNum(p, c2) * Sq(c1.d)

\* label l names a centroid of cents, none is closer to p, and every centroid
\* of lower index is farther
LowestNearest(p, cents, l) ==
    /\ l + 1 \in 1..Len(cents)
    /\ \A j \in 1..Len(cents) :
         /\ ~CloserThan(p, cents[j], cents[l + 1])
         /\ j < l + 1 => CloserThan(p, cents[l + 1], cents[j])

RECURSIVE SumOver(_, _)
SumOver(S, ch) ==
    IF S = {} THEN 0
    ELSE LET i == CHOOSE x \in S : TRUE
         IN  imageData.pixels[i][ch] + SumOver(S \ {i}, ch)

\* c is the component-wise mean of the pixels whose positions are in S
MeanOf(c, S) ==
    /\ c.d > 0
    /\ \A ch \in 1..3 : c.v[ch] * Cardinality(S) = SumOver(S, ch) * c.d

\* c1 and c2 are the same point
SamePoint(c1, c2) ==
    /\ c1.d > 0
    /\ c2.d > 0
    /\ \A ch \in 1..3 : c1.v[ch] * c2.d = c2.v[ch] * c1.d

Assigned(l) == { i \in 1..NumPixels : labels[i] = l }

\* C12: after the update step of the k-means++ implementation, the centroid
\* of every cluster that received a pixel is the component-wise mean of
\* exactly the pixels labelled with it, and the centroid of every cluster that
\* received none equals a member of the centroid list as it was before the
\* update (the list the pass measured against).
C12_CentroidUpdate ==
    (algorithm = "kpp" /\ PassCompleted) =>
        /\ Len(centroids) = k
        /\ \A l \in 0..(k - 1) :
             IF Assigned(l) # {}
             THEN MeanOf(centroids[l + 1], Assigned(l))
             ELSE \E j \in 1..Len(used) : centroids[l + 1] = used[j]

\* with 1 <= k <= n, an update has moved the centroid of one cluster to a
\* mean that was not in the list before, and has reseeded an empty cluster
C12_Witness ==
    /\ algorithm = "kpp"
    /\ PassCompleted
    /\ ValidK
    /\ \E l \in 0..(k - 1) : Assigned(l) = {}
    /\ \E l \in 0..(k - 1) :
         /\ Cardinality(Assigned(l)) >= 2
         /\ \A j \in 1..Len(used) : ~SamePoint(centroids[l + 1], used[j])

\* C13: when the k-means++ implementation returns after a pass in which no
\* label changed, assigning every pixel again (nearest centroid, lowest index
\* among equals) with the returned centroids gives each pixel the label it
\* was returned with, also when the last update reseeded an empty cluster.
C13_ReturnedLabelsFixedPoint ==
    (Finished /\ algorithm = "kpp" /\ outcome = "returned" /\ ~changed) =>
        \A i \in 1..NumPixels : LowestNearest(Pixel(i), centroids, labels[i])

-----------------------------------------------------------------------------
(* Claims about the metrics *)

\* C5: calculateCalinskiHarabaszIndex fails with an InsufficientClusters error
\* whenever the number of centroids is 1 or equals the number of pixels; it
\* returns no number, Infinity or NaN then.
C5_CalinskiHarabaszRejects ==
    (Finished /\ algorithm = "calinskiHarabasz"
        /\ (Len(centroids) = 1 \/ Len(centroids) = NumPixels)) =>
        /\ outcome = "InsufficientClusters"
        /\ value = NoValue

\* C6: calculateDaviesBouldinIndex fails with an InsufficientClusters error
\* whenever fewer than 2 centroids are supplied; it returns no number then.
C6_DaviesBouldinRejects ==
    (Finished /\ algorithm = "daviesBouldin" /\ Len(centroids) < 2) =>
        /\ outcome = "InsufficientClusters"
        /\ value = NoValue

\* two groups of at least two pixels, one all (0,0,0) and one all
\* (255,255,255), each with its own label
PerfectlySeparated ==
    /\ \E l \in {0, 1} :
         \A i \in 1..NumPixels :
            labels[i] = IF imageData.pixels[i] = Black THEN l ELSE 1 - l
    /\ Cardinality({ i \in 1..NumPixels : imageData.pixels[i] = Black }) >= 2
    /\ Cardinality({ i \in 1..NumPixels : imageData.pixels[i] = White }) >= 2

\* C7: on a perfectly separated input calculateSilhouetteScore returns a value
\* close to 1 (at least 0.9).
C7_SilhouetteNearOne ==
    (Finished /\ algorithm = "silhouette" /\ PerfectlySeparated) =>
        /\ value.kind = "number"
        /\ 10 * value.num >= 9 * value.den

-----------------------------------------------------------------------------
(* Claims about the region variants *)

\* C9: for every image with at least one pixel and every positive bandwidth /
\* sigma, meanShiftSegmentation and watershedSegmentation return without
\* throwing, with one label per pixel, each in 0 .. centroids.length - 1.
C9_RegionsComplete ==
    (Finished /\ algorithm \in {"meanshift", "watershed"} /\ NumPixels >= 1) =>
        /\ outcome = "returned"
        /\ Len(labels) = NumPixels
        /\ \A i \in 1..NumPixels : labels[i] \in 0..(Len(centroids) - 1)

-----------------------------------------------------------------------------
(* Claims about the SegmentationTool component *)

\* no Image of a run is awaited and no callback is executing
NoRunInFlight == img = NoImage /\ pc = "idle"

\* C14: every run that handleSegmentation starts sets isProcessing back to
\* false, after storing a result or after reporting an error, whatever the
\* algorithm and the number of centroids: once the run is over (nothing of it
\* is left to execute) isProcessing is false.
C14_ProcessingEnds == NoRunInFlight => ~isProcessing

\* C15: whenever result is non-null it belongs to the uploaded image:
\* result.originalImage is the current uploadedImageUrl, under every
\* interleaving of the handlers with the callback of a run in flight.
C15_ResultOfCurrentImage == result # Null => result.originalImage = uploadedImageUrl

====
